---- MODULE Spec2Model ----
(***************************************************************************)
(* The block-chain Downloader of go-seele (seele/download/downloader.go):  *)
(* one sync session (Synchronise / doSynchronise), the peer workers        *)
(* (peerDownload), the peer table operations (RegisterPeer,                *)
(* UnRegisterPeer, DeliverMsg), Cancel, Terminate and the chain writer     *)
(* call (processBlocks).                                                   *)
(*                                                                         *)
(* The task manager (taskMgr) and the peer connection (peerConn) are not   *)
(* part of downloader.go; they are modelled from the specification's       *)
(* sections 4.1 and 4.2 and are marked as such below.                      *)
(***************************************************************************)
EXTENDS Integers, Sequences, FiniteSets, TLC

(***************************************************************************)
(* Bounds of the model.  MaxHeaderFetch, MaxBlockFetch and MaxForkAncestry *)
(* are the program's tunables (256, 128 and 90000 in downloader.go lines   *)
(* 31-34) scaled down so that several batches fit in a small chain.        *)
(***************************************************************************)
MaxHeaderFetch == 2
MaxBlockFetch == 2
MaxForkAncestry == 3
\* highest remote height a master reports in a session of Spec
MaxH == 2
\* highest local / remote height drawn for the ancestor walk of AncSpec
MaxAncH == 4
\* peer workers alive at the same time
MaxWorkers == 2
\* failed WriteBlock calls per session
MaxFail == 1
\* headers a master may send beyond the requested count
MaxOver == 1
\* width of the scaled unsigned height arithmetic (uint64 in the source)
UintBits == 8

UintMod == 2 ^ UintBits

PeerIds == {"a", "b"}
\* ids Synchronise is called with
MasterIds == {"a"}
WorkerIds == 1 .. MaxWorkers
Heights == 1 .. MaxH

Min(x, y) == IF x <= y THEN x ELSE y

(***************************************************************************)
(* Session states (downloader.go lines 38-41).                             *)
(***************************************************************************)
statusNone == "None"
statusPreparing == "Preparing"
statusFetching == "Fetching"
statusCleaning == "Cleaning"

(***************************************************************************)
(* Errors (downloader.go lines 45-51; the wait errors are peerConn's).     *)
(***************************************************************************)
errHashNotMatch == "HashMismatch"
errInvalidAncestor == "InvalidAncestor"
errInvalidPacketRecved == "InvalidPacket"
errIsSynchronising == "Busy"
errMaxForkAncestor == "ForkTooDeep"
errPeerNotFound == "PeerNotFound"
errSyncErr == "SyncAborted"
errCancelled == "Cancelled"
errPeerGone == "PeerGone"
errDeserialize == "Deserialize"
errStore == "StoreError"

(***************************************************************************)
(* Task Manager (specification section 4.2).  A task manager is a record   *)
(*   from, to : the height range [ancestor+1, H]                           *)
(*   status   : the slot of every height ("-" outside the range)           *)
(*   owner    : the peer id holding the slot's reservation ("" if none)    *)
(*   master   : the master peer id it was built with                       *)
(*   closed   : close() was called                                         *)
(***************************************************************************)
taskPending == "Pending"
taskHeaderRequested == "HeaderRequested"
taskHeaderDelivered == "HeaderDelivered"
taskBlockRequested == "BlockRequested"
taskBlockDelivered == "BlockDelivered"
taskStatusProcessed == "Processed"

newTaskMgr(masterPeer, from, to) ==
    [from |-> from, to |-> to, master |-> masterPeer, closed |-> FALSE,
     status |-> [h \in Heights |-> IF from <= h /\ h <= to THEN taskPending ELSE "-"],
     owner |-> [h \in Heights |-> ""]]

NoTaskMgr == newTaskMgr("", 1, 0)

tmRange(t) == {h \in Heights : t.from <= h /\ h <= t.to}

isDone(t) == \A h \in tmRange(t) : t.status[h] = taskStatusProcessed

\* lowest height of the range in state st, 0 when there is none
tmFirst(t, st) ==
    IF \E h \in tmRange(t) : t.status[h] = st
    THEN CHOOSE h \in tmRange(t) :
             /\ t.status[h] = st
             /\ \A g \in tmRange(t) : t.status[g] = st => h <= g
    ELSE 0

\* length, at most max, of the contiguous run of slots in state st from start
tmRun(t, start, st, max) ==
    IF start = 0 THEN 0
    ELSE LET Ok(n) == \A h \in start .. (start + n - 1) :
                          h \in tmRange(t) /\ t.status[h] = st
         IN  CHOOSE n \in 0 .. max :
                 /\ Ok(n)
                 /\ \A m \in 0 .. max : Ok(m) => m <= n

\* get_header_request: the reservation [startNo, amount] a peer would get
getReqHeaderInfo(t) ==
    IF t.closed THEN [startNo |-> 0, amount |-> 0]
    ELSE LET first == tmFirst(t, taskPending)
         IN  [startNo |-> first,
              amount |-> tmRun(t, first, taskPending, MaxHeaderFetch)]

\* get_block_request
getReqBlocks(t) ==
    IF t.closed THEN [startNo |-> 0, amount |-> 0]
    ELSE LET first == tmFirst(t, taskHeaderDelivered)
         IN  [startNo |-> first,
              amount |-> tmRun(t, first, taskHeaderDelivered, MaxBlockFetch)]

\* the reservation is taken: the slots go to state st for the peer
tmReserve(t, peer, req, st) ==
    LET R == req.startNo .. (req.startNo + req.amount - 1)
    IN  [t EXCEPT !.status = [h \in Heights |-> IF h \in R THEN st ELSE @[h]],
                  !.owner = [h \in Heights |-> IF h \in R THEN peer ELSE @[h]]]

\* slots of hs that the peer holds in state st go back to state back
tmRelease(t, peer, hs, st, back) ==
    LET R == {h \in hs \cap Heights : t.status[h] = st /\ t.owner[h] = peer}
    IN  [t EXCEPT !.status = [h \in Heights |-> IF h \in R THEN back ELSE @[h]],
                  !.owner = [h \in Heights |-> IF h \in R THEN "" ELSE @[h]]]

\* deliver_headers accepts k headers from startNo: they are a run the peer reserved
headersAccepted(t, peer, startNo, k) ==
    /\ k >= 1
    /\ \A h \in startNo .. (startNo + k - 1) :
           h \in Heights /\ t.status[h] = taskHeaderRequested /\ t.owner[h] = peer

deliverHeaderMsg(t, peer, startNo, amount, k) ==
    IF t.closed THEN t
    ELSE IF headersAccepted(t, peer, startNo, k)
    THEN LET D == startNo .. (startNo + k - 1)
             t1 == [t EXCEPT
                      !.status = [h \in Heights |-> IF h \in D THEN taskHeaderDelivered ELSE @[h]],
                      !.owner = [h \in Heights |-> IF h \in D THEN "" ELSE @[h]]]
         IN  tmRelease(t1, peer, startNo .. (startNo + amount - 1),
                       taskHeaderRequested, taskPending)
    ELSE tmRelease(t, peer, startNo .. (startNo + amount - 1),
                   taskHeaderRequested, taskPending)

\* deliver_blocks: the first k blocks of the request are accepted where the
\* peer still holds the slot; the rest of the reservation reverts
tmAcceptBlocks(t, peer, startNo, amount, k) ==
    IF t.closed THEN t
    ELSE LET D == {h \in (startNo .. (startNo + k - 1)) \cap Heights :
                       t.status[h] = taskBlockRequested /\ t.owner[h] = peer}
             t1 == [t EXCEPT
                      !.status = [h \in Heights |-> IF h \in D THEN taskBlockDelivered ELSE @[h]],
                      !.owner = [h \in Heights |-> IF h \in D THEN "" ELSE @[h]]]
         IN  tmRelease(t1, peer, startNo .. (startNo + amount - 1),
                       taskBlockRequested, taskHeaderDelivered)

onPeerQuit(t, peer) ==
    tmRelease(tmRelease(t, peer, Heights, taskHeaderRequested, taskPending),
              peer, Heights, taskBlockRequested, taskHeaderDelivered)

tmClose(t) == [t EXCEPT !.closed = TRUE]

\* writer cursor: the lowest height not yet Processed (to+1 when done)
tmCursor(t) ==
    IF isDone(t) THEN t.to + 1
    ELSE CHOOSE h \in tmRange(t) :
             /\ t.status[h] # taskStatusProcessed
             /\ \A g \in tmRange(t) : t.status[g] # taskStatusProcessed => h <= g

\* the batch handed to the chain writer: the BlockDelivered slots at the cursor
tmBatch(t) ==
    IF t.closed \/ isDone(t) THEN << >>
    ELSE LET c == tmCursor(t)
             n == tmRun(t, c, taskBlockDelivered, MaxH)
         IN  [i \in 1 .. n |-> c + i - 1]


(***************************************************************************)
(* processBlocks (downloader.go lines 399-413).  outs are the results of   *)
(* the WriteBlock calls it makes, in order: it stops at the first result   *)
(* that is an error other than ErrBlockAlreadyExist, and marks every block *)
(* written before that Processed.                                          *)
(***************************************************************************)
WriteOk == "ok"
WriteExists == "AlreadyExists"
WriteErr == "error"

\* the result sequences processBlocks can see for a batch of n blocks
WriteOutcomes(n, mayFail) ==
    LET Good(k) == [1 .. k -> {WriteOk, WriteExists}]
    IN  Good(n) \cup
        (IF mayFail
         THEN UNION {{Append(g, WriteErr) : g \in Good(k)} : k \in 0 .. (n - 1)}
         ELSE {})

writeFailed(outs) == Len(outs) > 0 /\ outs[Len(outs)] = WriteErr

\* the WriteBlock calls: height and result
writeCalls(batch, outs) == [i \in 1 .. Len(outs) |-> [h |-> batch[i], res |-> outs[i]]]

\* a WriteBlock result after which line 412 marks the block Processed
writeAccepted(res) == res # WriteErr

processBlocks(t, batch, outs) ==
    LET P == {batch[i] : i \in {j \in 1 .. Len(outs) : writeAccepted(outs[j])}}
    IN  [t EXCEPT !.status = [h \in Heights |-> IF h \in P THEN taskStatusProcessed ELSE @[h]]]

(***************************************************************************)
(* State.                                                                  *)
(***************************************************************************)
VARIABLES
    syncStatus,   \* d.syncStatus
    cancelCh,     \* d.cancelCh: "nil", "open" or "closed"
    masterPeer,   \* d.masterPeer
    peers,        \* d.peers: the set of registered ids (each with a connection)
    lock,         \* d.lock: "free" or the operation that holds it while it blocks
    tm,           \* d.tm: "nil" or "set"
    tmgr,         \* the session's task manager object
    workers,      \* the peerDownload goroutines (d.sessionWG counts them)
    pc,           \* where the Synchronise call of the session is
    s,            \* locals of that call
    chain,        \* local chain and its agreement with the master's chain
    walk,         \* locals of findCommonAncestorHeight
    written,      \* the WriteBlock calls of the session, in order
    events,       \* events fired by the session, in order
    ev,           \* what the step just taken was, when it is one of: a return
                  \* of Synchronise (its result, "ok" for nil), the d.Cancel()
                  \* of an exiting master worker ("masterExit") or of a failed
                  \* write ("writeFailed"); "none" after any other step
    term          \* the Terminate call: "idle" (not made), "wait" (in
                  \* sessionWG.Wait) or "done" (returned)

vars == <<syncStatus, cancelCh, masterPeer, peers, lock, tm, tmgr,
          workers, pc, s, chain, walk, written, events, ev, term>>

NoWorker == [pc |-> "free", id |-> "", master |-> FALSE, inTable |-> FALSE,
             quit |-> FALSE, startNo |-> 0, amount |-> 0]

\* a variant in which every worker runs as the master's (bMaster true)
newWorkerAllMaster(id, isMaster) ==
    [pc |-> "loop", id |-> id, master |-> TRUE, inTable |-> TRUE,
     quit |-> FALSE, startNo |-> 0, amount |-> 0]

newWorker(id, isMaster) ==
    [pc |-> "loop", id |-> id, master |-> isMaster, inTable |-> TRUE,
     quit |-> FALSE, startNo |-> 0, amount |-> 0]

NoLocals == [pInTable |-> FALSE, pQuit |-> FALSE, requested |-> FALSE,
             H |-> 0, ancestor |-> 0, err |-> ""]

NoChain == [localHeight |-> 0, agree |-> {}]

NoWalk == [top |-> 0, cmp |-> 0, mfa |-> 0, reqs |-> << >>, over |-> FALSE]

\* d.sessionWG's counter
wg == Cardinality({w \in WorkerIds : workers[w].pc # "free"})

WaitPcs == {"waitHdr", "waitBlk"}

Init ==
    /\ syncStatus = statusNone
    /\ cancelCh = "nil"
    /\ masterPeer = ""
    /\ peers = {}
    /\ lock = "free"
    /\ tm = "nil"
    /\ tmgr = NoTaskMgr
    /\ workers = [w \in WorkerIds |-> NoWorker]
    /\ pc = "idle"
    /\ s = NoLocals
    /\ chain = NoChain
    /\ walk = NoWalk
    /\ written = << >>
    /\ events = << >>
    /\ ev = "none"
    /\ term = "idle"


(***************************************************************************)
(* Cancel (downloader.go lines 286-296), as called by who: it takes        *)
(* d.lock, and closes d.cancelCh when it is set and still open.            *)
(***************************************************************************)
\* a variant without the select of lines 290-294: closing a closed channel panics
CancelEffectNoSelect ==
    cancelCh' = IF cancelCh = "nil" THEN "nil"
                ELSE IF cancelCh = "open" THEN "closed" ELSE "panic"

CancelEffect ==
    cancelCh' = IF cancelCh = "open" THEN "closed" ELSE cancelCh

Cancel ==
    /\ lock = "free"
    /\ CancelEffect
    /\ ev' = "none"
    /\ UNCHANGED <<syncStatus, masterPeer, peers, lock, tm, tmgr, workers, pc, s,
                   chain, walk, written, events, term>>

(***************************************************************************)
(* Terminate (downloader.go lines 299-303): Cancel, then sessionWG.Wait.   *)
(***************************************************************************)
TerminateCancel ==
    /\ term = "idle"
    /\ lock = "free"
    /\ CancelEffect
    /\ term' = "wait"
    /\ ev' = "none"
    /\ UNCHANGED <<syncStatus, masterPeer, peers, lock, tm, tmgr, workers, pc, s,
                   chain, walk, written, events>>

TerminateReturn ==
    /\ term = "wait"
    /\ wg = 0
    /\ term' = "done"
    /\ ev' = "none"
    /\ UNCHANGED <<syncStatus, cancelCh, masterPeer, peers, lock, tm, tmgr,
                   workers, pc, s, chain, walk, written, events>>

(***************************************************************************)
(* Synchronise, entry (downloader.go lines 83-98).  The three outcomes     *)
(* are each one critical section of d.lock.                                *)
(***************************************************************************)
\* a variant that tests the state only after the assignments of lines 88-90
SynchroniseBusyLate(id) ==
    /\ syncStatus' = statusPreparing
    /\ cancelCh' = "open"
    /\ masterPeer' = id
    /\ ev' = errIsSynchronising
    /\ UNCHANGED <<peers, lock, tm, tmgr, workers, pc, s, chain, walk, written,
                   events, term>>

\* lines 84-87: a session is active
SynchroniseBusy(id) ==
    /\ ev' = errIsSynchronising
    /\ UNCHANGED <<syncStatus, cancelCh, masterPeer, peers, lock, tm, tmgr,
                   workers, pc, s, chain, walk, written, events, term>>

\* lines 88-97: the master is not registered
SynchroniseNotFound(id) ==
    /\ masterPeer' = id
    /\ cancelCh' = "closed"
    /\ syncStatus' = statusNone
    /\ ev' = errPeerNotFound
    /\ UNCHANGED <<peers, lock, tm, tmgr, workers, pc, s, chain, walk, written,
                   events, term>>

\* lines 88-98: the session starts, p is the master's connection
SynchroniseBegin(id) ==
    /\ pc = "idle"
    /\ syncStatus' = statusPreparing
    /\ cancelCh' = "open"
    /\ masterPeer' = id
    /\ s' = [NoLocals EXCEPT !.pInTable = TRUE]
    /\ pc' = "start"
    /\ tmgr' = NoTaskMgr
    /\ written' = << >>
    /\ events' = << >>
    /\ ev' = "none"
    /\ UNCHANGED <<peers, lock, tm, workers, chain, walk, term>>

Synchronise(id) ==
    /\ lock = "free"
    /\ IF syncStatus # statusNone THEN SynchroniseBusy(id)
       ELSE IF id \notin peers THEN SynchroniseNotFound(id)
       ELSE SynchroniseBegin(id)

(***************************************************************************)
(* doSynchronise (downloader.go lines 109-158).                            *)
(***************************************************************************)
DownloaderStartEvent == "DownloaderStart"
DownloaderDoneEvent == "DownloaderDone"
DownloaderFailedEvent == "DownloaderFailed"

\* a variant that fires DownloaderDone whatever the result
FireResultDone(err) == Append(events, DownloaderDoneEvent)

\* lines 111-117: the deferred event of doSynchronise returning err ("" is nil)
FireResult(err) ==
    Append(events, IF err # "" THEN DownloaderFailedEvent ELSE DownloaderDoneEvent)

\* doSynchronise returns err: the deferred event fires, Synchronise goes on at line 101
doSynchroniseReturn(err) ==
    /\ s' = [s EXCEPT !.err = err]
    /\ events' = FireResult(err)
    /\ pc' = "lock2"

\* line 110
FireStart ==
    /\ pc = "start"
    /\ events' = Append(events, DownloaderStartEvent)
    /\ pc' = "fetchHeight"
    /\ ev' = "none"
    /\ UNCHANGED <<syncStatus, cancelCh, masterPeer, peers, lock, tm, tmgr,
                   workers, s, chain, walk, written, term>>

\* fetchHeight, lines 162-163: the request for the master's head header
fetchHeightRequest ==
    /\ pc = "fetchHeight"
    /\ s' = [s EXCEPT !.requested = TRUE]
    /\ pc' = "waitHeight"
    /\ ev' = "none"
    /\ UNCHANGED <<syncStatus, cancelCh, masterPeer, peers, lock, tm, tmgr,
                   workers, chain, walk, written, events, term>>

\* a variant that drops the error of the Preparing phase
PrepareFailDropped(err) ==
    /\ s' = [s EXCEPT !.err = ""]
    /\ events' = Append(events, DownloaderDoneEvent)
    /\ pc' = "lock2"
    /\ ev' = "none"
    /\ UNCHANGED <<syncStatus, cancelCh, masterPeer, peers, lock, tm, tmgr,
                   workers, chain, written, term>>

\* an error of fetchHeight or findCommonAncestorHeight: lines 120-122, 126-128
PrepareFail(err) ==
    /\ doSynchroniseReturn(err)
    /\ ev' = "none"
    /\ UNCHANGED <<syncStatus, cancelCh, masterPeer, peers, lock, tm, tmgr,
                   workers, chain, written, term>>

\* conn.waitMsg of the session's call returns Cancelled or PeerGone
\* (lines 164-167, 221-224)
PrepareWaitFail ==
    /\ pc \in {"waitHeight", "waitAnc"}
    /\ walk' = walk
    /\ \/ cancelCh = "closed" /\ PrepareFail(errCancelled)
       \/ s.pQuit /\ PrepareFail(errPeerGone)

\* the chains a session of Spec may meet: the local height and the heights at
\* or below top = min(localHeight, H) where local and master hash agree
ChainsFor(H, maxLocal) ==
    {[localHeight |-> l, agree |-> A] :
        l \in 0 .. maxLocal, A \in SUBSET (0 .. Min(maxLocal, H))} \cap
    {c \in [localHeight : 0 .. maxLocal, agree : SUBSET (0 .. maxLocal)] :
        \A h \in c.agree : h <= Min(c.localHeight, H)}

\* a message can reach the waiting call: DeliverMsg finds the connection in
\* d.peers under d.lock (lines 275-277), and the wait has not been cancelled
PrepareCanReceive ==
    /\ lock = "free"
    /\ s.pInTable
    /\ cancelCh # "closed"

\* fetchHeight, lines 164-178, on the BlockHeadersMsg answer
fetchHeightReply(kind, h) ==
    /\ pc = "waitHeight"
    /\ PrepareCanReceive
    /\ walk' = walk
    /\ IF kind = "garbage" THEN PrepareFail(errDeserialize)
       ELSE IF kind = "count" THEN PrepareFail(errInvalidPacketRecved)
       ELSE IF kind = "hash" THEN PrepareFail(errHashNotMatch)
       ELSE /\ s' = [s EXCEPT !.H = h]
            /\ chain' \in ChainsFor(h, MaxH)
            /\ pc' = "anc"
            /\ ev' = "none"
            /\ UNCHANGED <<syncStatus, cancelCh, masterPeer, peers, lock, tm,
                           tmgr, workers, written, events, term>>


(***************************************************************************)
(* findCommonAncestorHeight (downloader.go lines 182-248).                 *)
(***************************************************************************)
\* lines 186-191
ancTop(localHeight, height) == IF localHeight <= height THEN localHeight ELSE height

\* a variant without the MaxForkAncestry cap
maxFetchAncestryUncapped(top) == top + 1

\* lines 198-203
maxFetchAncestry(top) == IF top >= MaxForkAncestry THEN MaxForkAncestry ELSE top + 1

\* line 208: unsigned subtraction
localTop(top, cmpCount) == (top - cmpCount) % UintMod

\* lines 209-214
fetchCount(mfa, cmpCount) ==
    IF (mfa - cmpCount) >= MaxHeaderFetch THEN MaxHeaderFetch ELSE mfa - cmpCount

\* lines 237-246 over the n headers of heights start, start-1, ...: the first
\* header whose local lookup fails (no block at that height) or whose hash
\* equals the local one decides
ancScan(c, start, n) ==
    LET Hit(i) == LET h == start - (i - 1) IN h > c.localHeight \/ h \in c.agree
    IN  IF \E i \in 1 .. n : Hit(i)
        THEN LET i == CHOOSE j \in 1 .. n : Hit(j) /\ \A k \in 1 .. (j - 1) : ~Hit(k)
                 h == start - (i - 1)
             IN  IF h > c.localHeight THEN [kind |-> "err", h |-> 0]
                 ELSE [kind |-> "found", h |-> h]
        ELSE [kind |-> "none", h |-> 0]

\* lines 184-203
ancEnter ==
    /\ pc = "anc"
    /\ LET top == ancTop(chain.localHeight, s.H)
       IN  IF top = 0
           THEN /\ s' = [s EXCEPT !.ancestor = 0]
                /\ pc' = "spawn"
                /\ walk' = NoWalk
           ELSE /\ walk' = [NoWalk EXCEPT !.top = top, !.mfa = maxFetchAncestry(top)]
                /\ pc' = "ancLoop"
                /\ s' = s
    /\ ev' = "none"
    /\ UNCHANGED <<syncStatus, cancelCh, masterPeer, peers, lock, tm, tmgr,
                   workers, chain, written, events, term>>

\* lines 208-220: the next reverse header request, or the walk is exhausted
ancLoop ==
    /\ pc = "ancLoop"
    /\ LET count == fetchCount(walk.mfa, walk.cmp)
       IN  IF count = 0
           THEN /\ PrepareFail(errMaxForkAncestor)
                /\ walk' = walk
           ELSE /\ walk' = [walk EXCEPT !.reqs = Append(@,
                                [start |-> localTop(walk.top, walk.cmp), count |-> count])]
                /\ pc' = "waitAnc"
                /\ ev' = "none"
                /\ UNCHANGED <<syncStatus, cancelCh, masterPeer, peers, lock,
                               tm, tmgr, workers, s, chain, written, events, term>>

lastReq == walk.reqs[Len(walk.reqs)]

\* how many headers the master may answer the last request with: heights do
\* not go below 0, and at most MaxOver more than requested
ReplySizes ==
    0 .. Min((IF lastReq.count > 0 THEN lastReq.count ELSE 0) + MaxOver,
             lastReq.start + 1)

\* lines 221-246 on a BlockHeadersMsg answer of n headers, heights descending
\* from the requested start
ancReply(kind, n) ==
    /\ pc = "waitAnc"
    /\ PrepareCanReceive
    /\ n \in ReplySizes
    /\ IF kind = "garbage" THEN PrepareFail(errDeserialize) /\ walk' = walk
       ELSE IF n = 0 THEN PrepareFail(errInvalidAncestor) /\ walk' = walk
       ELSE LET r == ancScan(chain, lastReq.start, n)
                w1 == [walk EXCEPT !.cmp = @ + n, !.over = @ \/ n > lastReq.count]
            IN  /\ walk' = w1
                /\ IF r.kind = "err" THEN PrepareFail(errStore)
                   ELSE /\ IF r.kind = "found"
                           THEN s' = [s EXCEPT !.ancestor = r.h] /\ pc' = "spawn"
                           ELSE s' = s /\ pc' = "ancLoop"
                        /\ ev' = "none"
                        /\ UNCHANGED <<syncStatus, cancelCh, masterPeer, peers,
                                       lock, tm, tmgr, workers, chain, written, events,
                                       term>>

\* lines 239-242: the local store fails the lookup of a header's height
ancStoreFail ==
    /\ pc = "waitAnc"
    /\ PrepareCanReceive
    /\ PrepareFail(errStore)
    /\ walk' = walk

(***************************************************************************)
(* doSynchronise, lines 130-158.                                           *)
(***************************************************************************)
IdOrder == <<"a", "b">>
idIndex(id) == CHOOSE i \in 1 .. Len(IdOrder) : IdOrder[i] = id

\* lines 134-142: the slot of the worker of id when the peers of S get one
spawnSlot(S, id) == Cardinality({j \in S : idIndex(j) <= idIndex(id)})

\* lines 130-143; high are the registered peers whose Head() reports a total
\* difficulty above localTD at line 135
doSynchroniseSpawn(high) ==
    /\ pc = "spawn"
    /\ lock = "free"
    /\ high \subseteq peers
    /\ tmgr' = newTaskMgr(masterPeer, s.ancestor + 1, s.H)
    /\ tm' = "set"
    /\ syncStatus' = statusFetching
    /\ workers' = [w \in WorkerIds |->
                     IF \E id \in high : spawnSlot(high, id) = w
                     THEN LET id == CHOOSE j \in high : spawnSlot(high, j) = w
                          IN  newWorker(id, id = masterPeer)
                     ELSE workers[w]]
    /\ pc' = "wait1"
    /\ s' = NoLocals
    /\ chain' = NoChain
    /\ walk' = NoWalk
    /\ ev' = "none"
    /\ UNCHANGED <<cancelCh, masterPeer, peers, lock, written, events, term>>

\* line 144: d.sessionWG.Wait()
doSynchroniseWait ==
    /\ pc = "wait1"
    /\ wg = 0
    /\ pc' = "cleaning"
    /\ ev' = "none"
    /\ UNCHANGED <<syncStatus, cancelCh, masterPeer, peers, lock, tm, tmgr,
                   workers, s, chain, walk, written, events, term>>

\* a variant that reports success whatever is_done says
syncResultOk(done) == ""

\* lines 153-157: the error doSynchronise returns after Fetching ("" is nil)
syncResult(done) == IF done THEN "" ELSE errSyncErr

\* a variant that clears d.tm and leaves the state Fetching
doSynchroniseCleaningNoStatus ==
    /\ pc = "cleaning"
    /\ lock = "free"
    /\ tmgr' = tmClose(tmgr)
    /\ tm' = "nil"
    /\ doSynchroniseReturn(syncResult(isDone(tmgr)))
    /\ walk' = walk
    /\ ev' = "none"
    /\ UNCHANGED <<syncStatus, cancelCh, masterPeer, peers, lock, workers, chain,
                   written, term>>

\* lines 146-157: Cleaning under d.lock, then tm.close(), after which the
\* task manager is terminal, and the result
doSynchroniseCleaning ==
    /\ pc = "cleaning"
    /\ lock = "free"
    /\ syncStatus' = statusCleaning
    /\ tmgr' = tmClose(tmgr)
    /\ tm' = "nil"
    /\ doSynchroniseReturn(syncResult(isDone(tmgr)))
    /\ walk' = walk
    /\ ev' = "none"
    /\ UNCHANGED <<cancelCh, masterPeer, peers, lock, workers, chain, written, term>>

(***************************************************************************)
(* Synchronise, exit (downloader.go lines 101-106).                        *)
(***************************************************************************)
\* lines 101-102
SynchroniseLock ==
    /\ pc = "lock2"
    /\ lock = "free"
    /\ lock' = "Synchronise"
    /\ syncStatus' = statusNone
    /\ pc' = "wait2"
    /\ ev' = "none"
    /\ UNCHANGED <<cancelCh, masterPeer, peers, tm, tmgr, workers, s, chain,
                   walk, written, events, term>>

\* a variant without the sessionWG.Wait() of line 103
SynchroniseReturnNoWait ==
    /\ pc = "wait2"
    /\ cancelCh' = "nil"
    /\ lock' = "free"
    /\ ev' = IF s.err = "" THEN "ok" ELSE s.err
    /\ pc' = "idle"
    /\ s' = NoLocals
    /\ chain' = NoChain
    /\ walk' = NoWalk
    /\ UNCHANGED <<syncStatus, masterPeer, peers, tm, tmgr, workers, written, events,
                   term>>

\* line 103, d.sessionWG.Wait() with d.lock held, then lines 104-106
SynchroniseReturn ==
    /\ pc = "wait2"
    /\ wg = 0
    /\ cancelCh' = "nil"
    /\ lock' = "free"
    /\ ev' = IF s.err = "" THEN "ok" ELSE s.err
    /\ pc' = "idle"
    /\ s' = NoLocals
    /\ chain' = NoChain
    /\ walk' = NoWalk
    /\ UNCHANGED <<syncStatus, masterPeer, peers, tm, tmgr, workers, written, events,
                   term>>


(***************************************************************************)
(* The peer table: RegisterPeer (lines 251-261), UnRegisterPeer (lines     *)
(* 264-271).  A worker's inTable says that its connection is the one       *)
(* d.peers holds for its id; quit that the connection was closed.          *)
(***************************************************************************)
freeSlots == {w \in WorkerIds : workers[w].pc = "free"}
lowestFree == CHOOSE w \in freeSlots : \A v \in freeSlots : w <= v

\* the connection d.peers held for id is replaced (or removed): nothing is
\* delivered to it any more
detach(id, closeIt) ==
    [w \in WorkerIds |->
        IF workers[w].pc # "free" /\ workers[w].id = id /\ workers[w].inTable
        THEN [workers[w] EXCEPT !.inTable = FALSE, !.quit = closeIt]
        ELSE workers[w]]

\* the same for the connection p of the Synchronise call in its Preparing phase
detachCall(id, closeIt) ==
    IF pc # "idle" /\ s.pInTable /\ id = masterPeer
    THEN [s EXCEPT !.pInTable = FALSE, !.pQuit = closeIt]
    ELSE s

\* a variant of the removal that leaves the table alone
peersDeleteKept(T, peerID) == T

\* line 255: d.peers[peerID] = newConn, on the ids of the table
peersPut(T, peerID) == T \cup {peerID}

\* lines 267-270: delete(d.peers, peerID) when the id is in the table
peersDelete(T, peerID) == IF peerID \in T THEN T \ {peerID} ELSE T

RegisterPeer(peerID) ==
    /\ lock = "free"
    /\ peers' = peersPut(peers, peerID)
    /\ s' = detachCall(peerID, FALSE)
    /\ IF syncStatus = statusFetching
       THEN /\ freeSlots # {}
            /\ workers' = [detach(peerID, FALSE) EXCEPT
                             ![lowestFree] = newWorker(peerID, peerID = masterPeer)]
       ELSE workers' = detach(peerID, FALSE)
    /\ ev' = "none"
    /\ UNCHANGED <<syncStatus, cancelCh, masterPeer, lock, tm, tmgr, pc,
                   chain, walk, written, events, term>>

UnRegisterPeer(peerID) ==
    /\ lock = "free"
    /\ IF peerID \in peers
       THEN /\ workers' = detach(peerID, TRUE)
            /\ s' = detachCall(peerID, TRUE)
       ELSE UNCHANGED <<workers, s>>
    /\ peers' = peersDelete(peers, peerID)
    /\ ev' = "none"
    /\ UNCHANGED <<syncStatus, cancelCh, masterPeer, lock, tm, tmgr, pc,
                   chain, walk, written, events, term>>

(***************************************************************************)
(* peerDownload (downloader.go lines 306-396).                             *)
(***************************************************************************)
\* the locals startNo and amount are dead outside the waits
setWorker(w, rec) ==
    workers' = [workers EXCEPT ![w] =
                  IF rec.pc \in WaitPcs THEN rec
                  ELSE [rec EXCEPT !.startNo = 0, !.amount = 0]]

\* a variant that leaves the loop without the peer-quit hook
workerExitNoQuit(w, t) ==
    /\ tmgr' = t
    /\ setWorker(w, IF workers[w].master THEN [workers[w] EXCEPT !.pc = "cancel"]
                    ELSE NoWorker)

\* lines 391-395 once the loop is left: the peer-quit hook on task manager t;
\* the master's worker goes on to d.Cancel(), any other is done (line 307)
workerExit(w, t) ==
    /\ tmgr' = onPeerQuit(t, workers[w].id)
    /\ setWorker(w, IF workers[w].master THEN [workers[w] EXCEPT !.pc = "cancel"]
                    ELSE NoWorker)

\* lines 339-346: a block reservation and its request; reqErr is the request's error
getBlocksStep(w, reqErr, otherwise) ==
    LET me == workers[w]
        req == getReqBlocks(tmgr)
    IN  IF req.amount > 0
        THEN IF reqErr
             THEN workerExit(w, tmReserve(tmgr, me.id, req, taskBlockRequested))
             ELSE /\ tmgr' = tmReserve(tmgr, me.id, req, taskBlockRequested)
                  /\ setWorker(w, [me EXCEPT !.pc = "waitBlk", !.startNo = req.startNo,
                                             !.amount = req.amount])
        ELSE /\ ~reqErr
             /\ otherwise

\* the idle select of lines 377-388: it leaves on cancellation or peer quit
\* (the idle timer only leads back to line 313)
idleExit(w) ==
    /\ cancelCh = "closed" \/ workers[w].quit
    /\ workerExit(w, tmgr)

\* lines 313-321 and 339-346: one pass from the top of the loop
workerLoop(w, reqErr) ==
    /\ workers[w].pc = "loop"
    /\ LET me == workers[w]
           req == getReqHeaderInfo(tmgr)
       IN  IF isDone(tmgr)
           THEN /\ ~reqErr
                /\ workerExit(w, tmgr)
           ELSE IF req.amount > 0
           THEN IF reqErr
                THEN workerExit(w, tmReserve(tmgr, me.id, req, taskHeaderRequested))
                ELSE /\ tmgr' = tmReserve(tmgr, me.id, req, taskHeaderRequested)
                     /\ setWorker(w, [me EXCEPT !.pc = "waitHdr", !.startNo = req.startNo,
                                                !.amount = req.amount])
           ELSE getBlocksStep(w, reqErr, idleExit(w))
    /\ ev' = "none"
    /\ UNCHANGED <<syncStatus, cancelCh, masterPeer, peers, lock, tm, pc, s,
                   chain, walk, written, events, term>>

\* lines 339-346 and 373-375, after a header delivery
workerBlocks(w, reqErr) ==
    /\ workers[w].pc = "blk"
    /\ getBlocksStep(w, reqErr,
                     tmgr' = tmgr /\ setWorker(w, [workers[w] EXCEPT !.pc = "loop"]))
    /\ ev' = "none"
    /\ UNCHANGED <<syncStatus, cancelCh, masterPeer, peers, lock, tm, pc, s,
                   chain, walk, written, events, term>>

\* conn.waitMsg returns an error (lines 322-326, 347-351, 360-364)
workerWaitFail(w) ==
    /\ workers[w].pc \in WaitPcs
    /\ cancelCh = "closed" \/ workers[w].quit
    /\ workerExit(w, tmgr)
    /\ ev' = "none"
    /\ UNCHANGED <<syncStatus, cancelCh, masterPeer, peers, lock, tm,
                   pc, s, chain, walk, written, events, term>>

failedWrites == Cardinality({i \in 1 .. Len(written) : written[i].res = WriteErr})

\* line 371: tm.deliverBlockMsg of the first k blocks of the request; for the
\* master peer the task manager hands the deliverable batch to processBlocks,
\* which stops at a failed write and then calls d.Cancel (line 409); outs
\* are the results of its WriteBlock calls
deliverBlockMsg(w, k) ==
    LET me == workers[w]
        t1 == tmAcceptBlocks(tmgr, me.id, me.startNo, me.amount, k)
        batch == IF me.id = tmgr.master THEN tmBatch(t1) ELSE << >>
    IN  \E outs \in WriteOutcomes(Len(batch), failedWrites < MaxFail) :
        /\ tmgr' = processBlocks(t1, batch, outs)
        /\ written' = written \o writeCalls(batch, outs)
        /\ setWorker(w, [me EXCEPT !.pc = IF writeFailed(outs) THEN "pbCancel" ELSE "loop"])

\* DeliverMsg (lines 274-283) hands a message to the waiting worker of the
\* connection d.peers holds; the worker deserializes it and delivers it to
\* the task manager.  k is the number of headers or blocks of the payload
\* that belong to the worker's request (0: none is acceptable).
\* Lines 322-337 for BlockHeadersMsg; lines 347-371 for BlocksPreMsg
\* (deliverBlockPreMsg is advisory and changes nothing) and BlocksMsg.
DeliverMsg(w, kind, k) ==
    /\ workers[w].pc \in WaitPcs
    /\ lock = "free"
    /\ workers[w].inTable
    /\ cancelCh # "closed"
    /\ k \in 0 .. workers[w].amount
    /\ LET me == workers[w]
           accepted == tmgr.closed \/ headersAccepted(tmgr, me.id, me.startNo, k)
           t1 == deliverHeaderMsg(tmgr, me.id, me.startNo, me.amount, k)
       IN  IF kind = "garbage"
           THEN workerExit(w, tmgr) /\ written' = written
           ELSE IF me.pc = "waitHdr"
           THEN /\ written' = written
                /\ IF accepted
                   THEN tmgr' = t1 /\ setWorker(w, [me EXCEPT !.pc = "blk"])
                   ELSE workerExit(w, t1)
           ELSE deliverBlockMsg(w, k)
    /\ ev' = "none"
    /\ UNCHANGED <<syncStatus, cancelCh, masterPeer, peers, lock, tm, pc, s, chain,
                   walk, events, term>>

\* lines 408-410: d.Cancel() after the failed write
workerWriteCancel(w) ==
    /\ workers[w].pc = "pbCancel"
    /\ lock = "free"
    /\ CancelEffect
    /\ setWorker(w, [workers[w] EXCEPT !.pc = "loop"])
    /\ ev' = "writeFailed"
    /\ UNCHANGED <<syncStatus, masterPeer, peers, lock, tm, tmgr, pc, s, chain, walk,
                   written, events, term>>

\* lines 392-394: the master's worker calls d.Cancel(), then Done
workerMasterCancel(w) ==
    /\ workers[w].pc = "cancel"
    /\ lock = "free"
    /\ CancelEffect
    /\ setWorker(w, NoWorker)
    /\ ev' = "masterExit"
    /\ UNCHANGED <<syncStatus, masterPeer, peers, lock, tm, tmgr, pc, s, chain, walk,
                   written, events, term>>

(***************************************************************************)
(* The system.                                                             *)
(***************************************************************************)
SessionStep ==
    \/ FireStart
    \/ fetchHeightRequest
    \/ PrepareWaitFail
    \/ ancEnter
    \/ ancLoop
    \/ \E high \in SUBSET PeerIds : doSynchroniseSpawn(high)
    \/ doSynchroniseWait
    \/ doSynchroniseCleaning
    \/ SynchroniseLock
    \/ SynchroniseReturn

WorkerStep(w) ==
    \/ \E reqErr \in BOOLEAN : workerLoop(w, reqErr)
    \/ \E reqErr \in BOOLEAN : workerBlocks(w, reqErr)
    \/ workerWaitFail(w)
    \/ workerWriteCancel(w)
    \/ workerMasterCancel(w)

\* the answers of the peers
MessageStep ==
    \/ \E kind \in {"garbage", "count", "hash", "header"}, h \in 0 .. MaxH :
           (kind = "header" \/ h = 0) /\ fetchHeightReply(kind, h)
    \/ \E kind \in {"garbage", "headers"}, n \in 0 .. (MaxHeaderFetch + MaxOver) :
           (kind = "headers" \/ n = 0) /\ ancReply(kind, n)
    \/ ancStoreFail
    \/ \E w \in WorkerIds, kind \in {"garbage", "payload"}, k \in 0 .. MaxHeaderFetch :
           (kind = "payload" \/ k = 0) /\ DeliverMsg(w, kind, k)

\* the calls of the embedding protocol
CallStep ==
    \/ \E id \in MasterIds : syncStatus = statusNone /\ Synchronise(id)
    \/ \E id \in PeerIds : RegisterPeer(id)
    \/ \E id \in PeerIds : UnRegisterPeer(id)
    \/ Cancel

Next ==
    \/ SessionStep
    \/ \E w \in WorkerIds : WorkerStep(w)
    \/ MessageStep
    \/ CallStep

Spec == Init /\ [][Next]_vars

\* with the Synchronise calls made while a session is active
BusyCall == \E id \in MasterIds : syncStatus # statusNone /\ Synchronise(id)

BusyNext == Next \/ BusyCall

BusySpec == Init /\ [][BusyNext]_vars

(***************************************************************************)
(* With Terminate (lines 299-303), called once while a session is active;  *)
(* the Downloader is not used for another session after the call.          *)
(***************************************************************************)
TermNext ==
    \/ SessionStep
    \/ \E w \in WorkerIds : WorkerStep(w)
    \/ MessageStep
    \/ \E id \in MasterIds :
           term = "idle" /\ syncStatus = statusNone /\ Synchronise(id)
    \/ \E id \in PeerIds : RegisterPeer(id)
    \/ \E id \in PeerIds : UnRegisterPeer(id)
    \/ syncStatus # statusNone /\ TerminateCancel
    \/ TerminateReturn

TermSpec == Init /\ [][TermNext]_vars

(***************************************************************************)
(* The ancestor walk on its own: findCommonAncestorHeight is entered with  *)
(* every local height, master height H and set of agreeing heights up to   *)
(* MaxAncH, and the master answers each request with any number of headers *)
(* from 0 to MaxOver more than requested.                                  *)
(***************************************************************************)
AncChains ==
    {c \in [localHeight : 0 .. MaxAncH, H : 0 .. MaxAncH, agree : SUBSET (0 .. MaxAncH)] :
        \A h \in c.agree : h <= Min(c.localHeight, c.H)}

AncInit ==
    /\ syncStatus = statusPreparing
    /\ cancelCh = "open"
    /\ masterPeer = "a"
    /\ peers = {"a"}
    /\ lock = "free"
    /\ tm = "nil"
    /\ tmgr = NoTaskMgr
    /\ workers = [w \in WorkerIds |-> NoWorker]
    /\ pc = "anc"
    /\ \E c \in AncChains :
          /\ s = [NoLocals EXCEPT !.pInTable = TRUE, !.requested = TRUE, !.H = c.H]
          /\ chain = [localHeight |-> c.localHeight, agree |-> c.agree]
    /\ walk = NoWalk
    /\ written = << >>
    /\ events = <<DownloaderStartEvent>>
    /\ ev = "none"
    /\ term = "idle"

AncNext ==
    \/ ancEnter
    \/ ancLoop
    \/ \E n \in 0 .. (MaxHeaderFetch + MaxOver) : ancReply("headers", n)

AncSpec == AncInit /\ [][AncNext]_vars

(***************************************************************************)
(* Properties.                                                             *)
(***************************************************************************)
\* the results a Synchronise call returns with
PrepareErrors ==
    {errHashNotMatch, errInvalidAncestor, errInvalidPacketRecved, errMaxForkAncestor,
     errCancelled, errPeerGone, errDeserialize, errStore}

Results == {"ok", errIsSynchronising, errPeerNotFound, errSyncErr} \cup PrepareErrors

\* the step just taken returned from a Synchronise call
Returned == ev \in Results

\* the steps left to a session: of the Synchronise call, of a worker, or the
\* answer to an outstanding request
Progress == SessionStep \/ (\E w \in WorkerIds : WorkerStep(w)) \/ MessageStep

\* C1, as stated: at the moment any call to Synchronise returns, with ok or
\* with any error, the session state is None and no worker is running.
C1_AnyReturnLeavesNone ==
    Returned => syncStatus = statusNone /\ wg = 0

\* C1, amended: at the moment a call to Synchronise that was not rejected
\* with Busy returns, the session state is None and no peer worker is
\* running, for every interleaving with RegisterPeer, UnRegisterPeer,
\* DeliverMsg and Cancel.
C1_ReturnLeavesNone ==
    (Returned /\ ev # errIsSynchronising) =>
        /\ syncStatus = statusNone
        /\ \A w \in WorkerIds : workers[w].pc = "free"

\* a session with workers has returned
C1_Witness == ev \in {"ok", errSyncErr} /\ written # << >> /\ wg = 0

\* C2: a session starts only from state None, and a Synchronise call that
\* finds the state different from None returns Busy and leaves the session
\* state, the master peer id, the cancellation signal, the task manager and
\* the running workers unchanged.
C2_BusyChangesNothing ==
    [][/\ (syncStatus # statusNone /\ \E id \in MasterIds : Synchronise(id)) =>
             ev' = errIsSynchronising
       /\ ev' = errIsSynchronising =>
             /\ syncStatus # statusNone
             /\ UNCHANGED <<syncStatus, masterPeer, cancelCh, tm, tmgr, workers, pc>>
       /\ (pc = "idle" /\ pc' # "idle") => syncStatus = statusNone /\ wg = 0]_vars

\* Busy was returned while workers of the active session were running
C2_Witness ==
    ev = errIsSynchronising /\ syncStatus = statusFetching /\ wg > 0 /\ cancelCh = "closed"

\* C3: over a session the WriteBlock calls are for the heights ancestor+1,
\* ancestor+2, ... in this order without gap or repetition, and when
\* Synchronise returns ok there was exactly one call for each height of
\* [ancestor+1, H].
C3_WritesAscendOnce ==
    /\ \A i \in 1 .. Len(written) : written[i].h = tmgr.from + i - 1
    /\ ev = "ok" => Len(written) = tmgr.to - tmgr.from + 1

\* C4: once Cancel was invoked during a session, the session is never left
\* with no thread able to move: as long as Synchronise has not returned, its
\* call or one of the workers can take a step.  (Cancel can be invoked in
\* exactly the states where d.lock is free, and it leaves the signal closed,
\* so the states after a Cancel during a session are the states below and
\* their successors.)
C4_CancelNeverBlocks ==
    (pc # "idle" /\ cancelCh = "closed") => ENABLED Progress

\* C5: when the master is unregistered during a session with work left, the
\* session does not come to rest with the cancellation signal still open:
\* either the signal is closed, or the Synchronise call or a worker can move
\* or an answer is outstanding.
C5_MasterDeathCancels ==
    (pc = "wait1" /\ masterPeer \notin peers /\ ~isDone(tmgr)) =>
        cancelCh = "closed" \/ ENABLED Progress

\* C6: a Synchronise call that reached Fetching (its task manager was built
\* and closed) returns ok if and only if every slot is Processed when the
\* task manager is closed, and SyncAborted otherwise.
C6_OkIffDone ==
    /\ (pc \in {"lock2", "wait2"} /\ tmgr.closed) =>
          /\ s.err \in {"", errSyncErr}
          /\ s.err = "" <=> \A h \in tmRange(tmgr) : tmgr.status[h] = taskStatusProcessed
    /\ (Returned /\ ev \notin {errIsSynchronising, errPeerNotFound} /\ tmgr.closed) =>
          /\ ev \in {"ok", errSyncErr}
          /\ ev = "ok" <=> \A h \in tmRange(tmgr) : tmgr.status[h] = taskStatusProcessed

\* the signal was closed after the last block was written, and the call is
\* about to return ok
C6_Witness ==
    /\ pc = "wait2" /\ wg = 0
    /\ s.err = ""
    /\ cancelCh = "closed"
    /\ Len(written) = MaxH
    /\ tmgr.closed

\* C7: a Synchronise call that is not rejected with Busy or PeerNotFound
\* fires DownloaderStart once, before any request is sent, and then exactly
\* one of DownloaderDone and DownloaderFailed before it returns:
\* DownloaderDone if and only if it returns ok.
C7_Events ==
    /\ (pc \notin {"idle", "start"}) =>
          Len(events) >= 1 /\ events[1] = DownloaderStartEvent
    /\ (pc \in {"idle", "start"} /\ ~Returned) => wg = 0 /\ ~s.requested
    /\ (s.requested \/ walk.reqs # << >> \/ wg > 0) =>
          Len(events) >= 1 /\ events[1] = DownloaderStartEvent
    /\ \A i \in 2 .. Len(events) : events[i] # DownloaderStartEvent
    /\ (pc \in {"fetchHeight", "waitHeight", "anc", "ancLoop", "waitAnc", "spawn",
                "wait1", "cleaning"}) => events = <<DownloaderStartEvent>>
    /\ (pc \in {"lock2", "wait2"}) =>
          events = <<DownloaderStartEvent,
                     IF s.err = "" THEN DownloaderDoneEvent ELSE DownloaderFailedEvent>>
    /\ (Returned /\ ev \notin {errIsSynchronising, errPeerNotFound}) =>
          events = <<DownloaderStartEvent,
                     IF ev = "ok" THEN DownloaderDoneEvent ELSE DownloaderFailedEvent>>

\* a session returned ok with DownloaderStart and DownloaderDone fired
C7_Witness ==
    ev = "ok" /\ events = <<DownloaderStartEvent, DownloaderDoneEvent>> /\ written # << >>

\* C8: a session that ends in its Preparing phase returns the error of the
\* height fetch or the ancestor walk; no task manager was built, no worker
\* was spawned, the state goes from Preparing straight to None, and
\* DownloaderFailed is fired.
C8_PrepareErrorIsFatal ==
    /\ syncStatus = statusPreparing => wg = 0 /\ tm = "nil" /\ tmgr = NoTaskMgr
    /\ (pc \in {"lock2", "wait2"} /\ ~tmgr.closed) =>
          /\ s.err \in PrepareErrors
          /\ tmgr = NoTaskMgr /\ tm = "nil" /\ wg = 0
          /\ syncStatus = IF pc = "lock2" THEN statusPreparing ELSE statusNone
          /\ events = <<DownloaderStartEvent, DownloaderFailedEvent>>
    /\ (pc \in {"lock2", "wait2"} /\ s.err \in PrepareErrors) => ~tmgr.closed
    /\ (Returned /\ ev \in PrepareErrors) =>
          /\ tmgr = NoTaskMgr /\ tm = "nil" /\ wg = 0
          /\ syncStatus = statusNone
          /\ events = <<DownloaderStartEvent, DownloaderFailedEvent>>
    /\ (Returned /\ ev \notin {errIsSynchronising, errPeerNotFound} /\ ~tmgr.closed) =>
          ev \in PrepareErrors

\* the walk was exhausted and Synchronise returned ForkTooDeep
C8_Witness == ev = errMaxForkAncestor /\ syncStatus = statusNone

\* C9: the agreeing heights inside the window of the highest
\* min(MaxForkAncestry, top+1) heights at or below top
ancWindow ==
    LET top == Min(chain.localHeight, s.H)
    IN  {h \in chain.agree : h <= top /\ h > top - Min(MaxForkAncestry, top + 1)}

\* every answer so far had between 1 and the requested number of headers
ancHonest == ~walk.over /\ s.err # errInvalidAncestor

\* C9: with a master that answers every request with between 1 and the
\* requested count of headers, the walk returns the greatest agreeing height
\* of the window, fails with ForkTooDeep when the window has none, and for
\* top = 0 returns 0 without a request.
C9_GreatestCommonAncestor ==
    LET top == Min(chain.localHeight, s.H)
    IN  /\ (pc = "spawn" /\ top = 0) => s.ancestor = 0 /\ walk.reqs = << >>
        /\ (pc = "spawn" /\ top > 0 /\ ancHonest) =>
              /\ s.ancestor \in ancWindow
              /\ \A h \in ancWindow : h <= s.ancestor
        /\ (pc = "lock2" /\ ancHonest) =>
              /\ s.err = errMaxForkAncestor
              /\ ancWindow = {}
        /\ (pc \in {"ancLoop", "waitAnc"} /\ ancHonest) =>
              \A h \in ancWindow : h <= top - walk.cmp

\* the walk needed a second request and found an ancestor below top
C9_Witness ==
    /\ pc = "spawn" /\ ancHonest
    /\ Len(walk.reqs) = 2
    /\ s.ancestor \in ancWindow
    /\ s.ancestor < Min(chain.localHeight, s.H)

\* C10: after a WriteBlock error nothing more of the batch is written and no
\* block at or above the failing height is Processed, the Processed slots are
\* a gap-free prefix, a block whose write returned AlreadyExists is
\* Processed, the failed write's Cancel leaves the signal closed, and the
\* session's Synchronise returns an error.
C10_WriteErrorIsFatal ==
    /\ \A i \in 1 .. Len(written) :
          written[i].res = WriteErr =>
             /\ i = Len(written)
             /\ \A h \in tmRange(tmgr) :
                   h >= written[i].h => tmgr.status[h] # taskStatusProcessed
    /\ \A i \in 1 .. Len(written) :
          written[i].res # WriteErr => tmgr.status[written[i].h] = taskStatusProcessed
    /\ \A h \in tmRange(tmgr), g \in tmRange(tmgr) :
          (g < h /\ tmgr.status[h] = taskStatusProcessed) =>
              tmgr.status[g] = taskStatusProcessed
    /\ ev = "writeFailed" => cancelCh = "closed"
    /\ (\E i \in 1 .. Len(written) : written[i].res = WriteErr) => ev # "ok"

\* C11, as stated: for every peer id and every state of the peer table,
\* RegisterPeer(id) followed by UnRegisterPeer(id) leaves the table as it was
\* before the pair, also when id was registered before.
C11_PairRestoresTable ==
    \A id \in PeerIds : peersDelete(peersPut(peers, id), id) = peers

\* C11, amended: for every peer id that is not in the peer table,
\* RegisterPeer(id) followed by UnRegisterPeer(id) leaves the table as it was
\* before the pair; for an id that is in the table the pair removes it.
C11_PairRestoresFreshId ==
    \A id \in PeerIds :
        /\ id \notin peers => peersDelete(peersPut(peers, id), id) = peers
        /\ id \in peers => peersDelete(peersPut(peers, id), id) = peers \ {id}

\* during Fetching the table holds one id and the other id is fresh
C11_Witness ==
    /\ syncStatus = statusFetching
    /\ Cardinality(peers) = 1
    /\ \E id \in PeerIds : id \notin peers /\ ENABLED RegisterPeer(id)

\* the steps that run d.Cancel(): the call of the embedding protocol, the
\* exiting master worker and the worker whose chain write failed
CancelStep ==
    \/ Cancel
    \/ \E w \in WorkerIds : workerWriteCancel(w) \/ workerMasterCancel(w)

\* C12: the cancellation signal is never closed twice (no close of a closed
\* channel; a closed signal is open again only as the new channel of the next
\* session); a d.Cancel() by a caller, by an exiting master worker or after
\* a failed chain write closes the signal when it is open and leaves a nil or
\* closed signal as it is, and changes nothing else of the session; with no
\* session (state None) it changes nothing; and after it a second Cancel
\* changes nothing.
C12_CancelIdempotent ==
    [][/\ cancelCh' \in {"nil", "open", "closed"}
       /\ (cancelCh = "closed" /\ cancelCh' = "open") => pc = "idle" /\ pc' = "start"
       /\ CancelStep =>
             /\ cancelCh' = IF cancelCh = "open" THEN "closed" ELSE cancelCh
             /\ UNCHANGED <<syncStatus, masterPeer, peers, lock, tm, tmgr, pc, s,
                            chain, walk, written, events, term>>
             /\ cancelCh' # "open"
       /\ (Cancel /\ syncStatus = statusNone) =>
             UNCHANGED <<cancelCh, workers>>
       /\ (Cancel /\ cancelCh # "open") => UNCHANGED <<cancelCh, workers>>]_vars

\* the exiting master worker ran d.Cancel() on a signal that the Cancel of a
\* failed write had closed before
C12_Witness ==
    /\ ev = "masterExit"
    /\ cancelCh = "closed"
    /\ \E i \in 1 .. Len(written) : written[i].res = WriteErr

\* C13: when Terminate is invoked while a session is active, then at the
\* moment it returns the session's cancellation signal is closed (d.cancelCh
\* is closed, or nil once Synchronise has returned) and no peer worker is
\* running, and after it has returned no worker starts.
C13_TerminateStopsWorkers ==
    [][/\ (term = "wait" /\ term' = "done") =>
             /\ cancelCh' \in {"closed", "nil"}
             /\ \A w \in WorkerIds : workers'[w].pc = "free"
       /\ term = "done" =>
             \A w \in WorkerIds : workers[w].pc = "free" => workers'[w].pc = "free"]_vars

\* the changes of d.syncStatus a step may make
StatusMoves ==
    {<<statusNone, statusPreparing>>, <<statusPreparing, statusFetching>>,
     <<statusFetching, statusCleaning>>, <<statusCleaning, statusNone>>,
     <<statusPreparing, statusNone>>}

\* C14: the session state changes only along None -> Preparing -> Fetching
\* -> Cleaning -> None, or Preparing -> None (the master is not registered,
\* which shows as a PeerNotFound return with the state None again, or the
\* height fetch or the ancestor walk failed); the state is Fetching only
\* while d.tm is set to the open task manager built for the session's
\* master.
C14_StatusTransitions ==
    [][/\ syncStatus' # syncStatus => <<syncStatus, syncStatus'>> \in StatusMoves
       /\ (syncStatus = statusPreparing /\ syncStatus' = statusNone) =>
             s.err \in PrepareErrors /\ tm = "nil"
       /\ (syncStatus = statusCleaning /\ syncStatus' = statusNone) => tmgr.closed
       /\ ev' = errPeerNotFound =>
             syncStatus = statusNone /\ syncStatus' = statusNone /\ masterPeer' \notin peers
       /\ syncStatus' = statusFetching =>
             /\ tm' = "set"
             /\ ~tmgr'.closed
             /\ tmgr'.master = masterPeer']_vars

\* a session went through Fetching and is in Cleaning with every block written
C14_Witness ==
    /\ syncStatus = statusCleaning
    /\ tm = "nil"
    /\ Len(written) = MaxH

\* where a worker is inside the loop of lines 313-389
LoopPcs == {"loop", "waitHdr", "blk", "waitBlk", "pbCancel"}

\* C15: a worker that leaves its loop, for whatever reason, has its peer id's
\* reservations released by onPeerQuit in that step, and it is counted as
\* exited (sessionWG.Done) in that step if its id is not the master's, and
\* otherwise only by its following d.Cancel(), which leaves the signal
\* closed and does not touch the task manager again; a worker is counted as
\* exited in no other way, and it runs as master exactly when its id is the
\* session's master id.
C15_ExitCallsOnPeerQuit ==
    [][\A w \in WorkerIds :
         LET me == workers[w]
             after == workers'[w]
         IN  /\ (me.pc \in LoopPcs /\ after.pc \notin LoopPcs) =>
                   /\ me.pc # "pbCancel"
                   /\ \A h \in Heights : tmgr'.owner[h] # me.id
                   /\ tmgr'.status = onPeerQuit(tmgr', me.id).status
                   /\ after.pc = IF me.master THEN "cancel" ELSE "free"
             /\ (me.pc = "cancel" /\ after.pc # "cancel") =>
                   /\ after.pc = "free"
                   /\ cancelCh' = "closed"
                   /\ tmgr' = tmgr
             /\ (me.pc # "free" /\ after.pc = "free") =>
                   me.pc = "cancel" \/ (me.pc \in LoopPcs /\ ~me.master)
             /\ me.pc # "free" => (me.master <=> me.id = masterPeer)]_vars

\* a worker of another id left on a rejected delivery while it held no more
\* than its own request, and the master's worker has exited through Cancel
C15_Witness ==
    /\ ev = "masterExit"
    /\ wg = 0
    /\ ~isDone(tmgr)
    /\ \A h \in Heights : tmgr.owner[h] = ""
    /\ \E h \in tmRange(tmgr) : tmgr.status[h] = taskHeaderDelivered

\* the ids of the running workers
workerIdsOf(ws) == {ws[w].id : w \in {v \in WorkerIds : ws[v].pc # "free"}}

\* C16: the step that enters Fetching starts workers for registered peers
\* only (those whose total difficulty is above localTD), one per peer id,
\* and the master peer is among them.
C16_SpawnPerEligiblePeer ==
    [][(syncStatus = statusPreparing /\ syncStatus' = statusFetching) =>
          /\ workerIdsOf(workers') \subseteq peers
          /\ \A w \in WorkerIds, v \in WorkerIds :
                (w # v /\ workers'[w].pc # "free" /\ workers'[v].pc # "free") =>
                    workers'[w].id # workers'[v].id
          /\ \A w \in WorkerIds : workers'[w].pc # "free" => workers'[w].pc = "loop"
          /\ masterPeer \in workerIdsOf(workers')]_vars

\* worker w, not bound to the master's id, is counted as exited by the step
nonMasterExit(w) ==
    /\ workers[w].pc \in LoopPcs
    /\ workers[w].id # masterPeer
    /\ workers'[w].pc = "free"

C18_OneWorkerPerPeer ==
    \A w \in WorkerIds, v \in WorkerIds :
        (w # v /\ workers[w].pc # "free" /\ workers[v].pc # "free") =>
            workers[w].id # workers[v].id

\* C19: a thread that holds d.lock is not waiting: in every state in which
\* the lock is held across steps, its holder (the Synchronise call in
\* sessionWG.Wait, line 103) can go on at once, no worker being left to
\* wait for.
C19_NoWaitUnderLock ==
    lock # "free" => (wg = 0 /\ ENABLED SynchroniseReturn)

\* the number of headers asked for by the first n requests of the walk
RECURSIVE requestedUpTo(_)
requestedUpTo(n) == IF n = 0 THEN 0 ELSE requestedUpTo(n - 1) + walk.reqs[n].count

\* C20: whatever non-zero number of headers the master sends per batch, also
\* more than requested, every header request of the walk has a count between
\* 1 and MaxHeaderFetch and a start height at or below top, the request
\* outstanding starts at top minus the number of headers received so far,
\* which is not above top (no unsigned underflow), and the counts of all
\* requests add up to at most maxFetchAncestry = min(MaxForkAncestry, top+1).
C20_WalkRequestsInRange ==
    /\ \A i \in 1 .. Len(walk.reqs) :
          /\ walk.reqs[i].count \in 1 .. MaxHeaderFetch
          /\ walk.reqs[i].start \in 0 .. walk.top
    /\ pc = "waitAnc" =>
          /\ walk.cmp <= walk.top
          /\ lastReq.start = walk.top - walk.cmp
    /\ walk.reqs # << >> =>
          /\ walk.mfa = Min(MaxForkAncestry, walk.top + 1)
          /\ requestedUpTo(Len(walk.reqs)) <= walk.mfa

====
